---- MODULE Spec2Model ----
(***************************************************************************)
(* The ledger of src/src/db.rs: a Database of clients and transactions,    *)
(* and the five operations deposit, withdraw, dispute, resolve and         *)
(* chargeback.  Decimal amounts are modelled as integers (a whole number   *)
(* of the smallest currency subdivision); every amount of the model is far *)
(* from the 96-bit limit of rust_decimal, so no addition overflows.        *)
(***************************************************************************)
EXTENDS Integers, FiniteSets, Sequences, TLC

(***************************************************************************)
(* The inputs of the model.  ClientId and TxId are u16 and u32 in the      *)
(* source; two ids of each are enough for a call to name the client or the *)
(* transaction of an earlier call, or another one.                         *)
(***************************************************************************)
ClientIds == {1, 2}

TxIds == {1, 2}

\* The largest amount of a deposit or withdrawal.
MaxAmount == 1

\* Database::dispute can be repeated without limit (Client::hold has no
\* upper check), so a call is left out once it would take a client's held
\* past this bound.
MaxHeld == 2

\* Dispute followed by chargeback can be repeated without limit as well,
\* each round taking the amount from available: a call is left out once
\* it would take a client's available below -MaxDebt.
MaxDebt == 1

\* One negative amount, zero, and the positive amounts.
Amounts == (0 - 1)..MaxAmount

(***************************************************************************)
(* Results.  anyhow::Result<()> is modelled by a flag and an error kind;   *)
(* a method that takes &mut self returns the value self has afterwards,    *)
(* which on an error is the value it had when the error was raised.        *)
(***************************************************************************)
NoErr == "none"

\* Client::new
Client_new(id) ==
    [id |-> id, available |-> 0, held |-> 0, locked |-> FALSE]

\* Tx::new
Tx_new(id, amount) ==
    [id |-> id, amount |-> amount]

\* Database::new
Database_new ==
    [clients |-> << >>, txs |-> << >>]

\* Client::deposit with the amount credited to held.
Client_deposit_to_held(self, amount) ==
    IF ~(amount >= 0)
    THEN [ok |-> FALSE, err |-> "negative", self |-> self]
    ELSE [ok |-> TRUE, err |-> NoErr,
          self |-> [self EXCEPT !.held = @ + amount]]

\* Client::deposit
Client_deposit(self, amount) ==
    IF ~(amount >= 0)
    THEN [ok |-> FALSE, err |-> "negative", self |-> self]
    ELSE [ok |-> TRUE, err |-> NoErr,
          self |-> [self EXCEPT !.available = @ + amount]]

\* Client::withdraw without the comparison with available.
Client_withdraw_unchecked(self, amount) ==
    IF ~(amount >= 0)
    THEN [ok |-> FALSE, err |-> "negative", self |-> self]
    ELSE [ok |-> TRUE, err |-> NoErr,
          self |-> [self EXCEPT !.available = @ - amount]]

\* Client::withdraw with < for <= in the comparison with available.
Client_withdraw_strict(self, amount) ==
    IF ~(amount >= 0)
    THEN [ok |-> FALSE, err |-> "negative", self |-> self]
    ELSE IF ~(amount < self.available)
    THEN [ok |-> FALSE, err |-> "insufficient_available", self |-> self]
    ELSE [ok |-> TRUE, err |-> NoErr,
          self |-> [self EXCEPT !.available = @ - amount]]

\* Client::withdraw
Client_withdraw(self, amount) ==
    IF ~(amount >= 0)
    THEN [ok |-> FALSE, err |-> "negative", self |-> self]
    ELSE IF ~(amount <= self.available)
    THEN [ok |-> FALSE, err |-> "insufficient_available", self |-> self]
    ELSE [ok |-> TRUE, err |-> NoErr,
          self |-> [self EXCEPT !.available = @ - amount]]

\* Client::hold that adds to held and forgets to take from available.
Client_hold_keeps_available(self, amount) ==
    IF ~(amount >= 0)
    THEN [ok |-> FALSE, err |-> "negative", self |-> self]
    ELSE [ok |-> TRUE, err |-> NoErr,
          self |-> [self EXCEPT !.held = @ + amount]]

\* Client::hold: no comparison of amount with self.available.
Client_hold(self, amount) ==
    IF ~(amount >= 0)
    THEN [ok |-> FALSE, err |-> "negative", self |-> self]
    ELSE [ok |-> TRUE, err |-> NoErr,
          self |-> [self EXCEPT !.available = @ - amount,
                                !.held = @ + amount]]

\* Client::release without the comparison with held, as Client::hold is
\* without the one with available.
Client_release_unchecked(self, amount) ==
    IF ~(amount >= 0)
    THEN [ok |-> FALSE, err |-> "negative", self |-> self]
    ELSE [ok |-> TRUE, err |-> NoErr,
          self |-> [self EXCEPT !.available = @ + amount,
                                !.held = @ - amount]]

\* Client::release with < for <= in the comparison with held.
Client_release_strict(self, amount) ==
    IF ~(amount >= 0)
    THEN [ok |-> FALSE, err |-> "negative", self |-> self]
    ELSE IF ~(amount < self.held)
    THEN [ok |-> FALSE, err |-> "insufficient_held", self |-> self]
    ELSE [ok |-> TRUE, err |-> NoErr,
          self |-> [self EXCEPT !.available = @ + amount,
                                !.held = @ - amount]]

\* Client::release that also lifts the lock.
Client_release_unlocks(self, amount) ==
    IF ~(amount >= 0)
    THEN [ok |-> FALSE, err |-> "negative", self |-> self]
    ELSE IF ~(amount <= self.held)
    THEN [ok |-> FALSE, err |-> "insufficient_held", self |-> self]
    ELSE [ok |-> TRUE, err |-> NoErr,
          self |-> [self EXCEPT !.available = @ + amount,
                                !.held = @ - amount,
                                !.locked = FALSE]]

\* Client::release
Client_release(self, amount) ==
    IF ~(amount >= 0)
    THEN [ok |-> FALSE, err |-> "negative", self |-> self]
    ELSE IF ~(amount <= self.held)
    THEN [ok |-> FALSE, err |-> "insufficient_held", self |-> self]
    ELSE [ok |-> TRUE, err |-> NoErr,
          self |-> [self EXCEPT !.available = @ + amount,
                                !.held = @ - amount]]

\* Client::chargeback that sets locked ahead of the comparison with held,
\* so that a rejected chargeback leaves the client locked.
Client_chargeback_locks_first(self, amount) ==
    IF ~(amount >= 0)
    THEN [ok |-> FALSE, err |-> "negative", self |-> self]
    ELSE IF ~(amount <= self.held)
    THEN [ok |-> FALSE, err |-> "insufficient_held",
          self |-> [self EXCEPT !.locked = TRUE]]
    ELSE [ok |-> TRUE, err |-> NoErr,
          self |-> [self EXCEPT !.held = @ - amount,
                                !.locked = TRUE]]

\* Client::chargeback that gives the held amount back to available, as
\* Client::release does.
Client_chargeback_credits(self, amount) ==
    IF ~(amount >= 0)
    THEN [ok |-> FALSE, err |-> "negative", self |-> self]
    ELSE IF ~(amount <= self.held)
    THEN [ok |-> FALSE, err |-> "insufficient_held", self |-> self]
    ELSE [ok |-> TRUE, err |-> NoErr,
          self |-> [self EXCEPT !.available = @ + amount,
                                !.held = @ - amount,
                                !.locked = TRUE]]

\* Client::chargeback with < for <= in the comparison with held.
Client_chargeback_strict(self, amount) ==
    IF ~(amount >= 0)
    THEN [ok |-> FALSE, err |-> "negative", self |-> self]
    ELSE IF ~(amount < self.held)
    THEN [ok |-> FALSE, err |-> "insufficient_held", self |-> self]
    ELSE [ok |-> TRUE, err |-> NoErr,
          self |-> [self EXCEPT !.held = @ - amount,
                                !.locked = TRUE]]

\* Client::chargeback
Client_chargeback(self, amount) ==
    IF ~(amount >= 0)
    THEN [ok |-> FALSE, err |-> "negative", self |-> self]
    ELSE IF ~(amount <= self.held)
    THEN [ok |-> FALSE, err |-> "insufficient_held", self |-> self]
    ELSE [ok |-> TRUE, err |-> NoErr,
          self |-> [self EXCEPT !.held = @ - amount,
                                !.locked = TRUE]]

\* Database::client: look up an existing client, or create a new one.
\* The value is the client map after the call.
Database_client(db, id) ==
    IF id \in DOMAIN db.clients
    THEN db.clients
    ELSE [c \in (DOMAIN db.clients) \cup {id} |->
            IF c = id THEN Client_new(id) ELSE db.clients[c]]

\* HashMap::insert on txs, for a key known to be absent.
Txs_insert(txs, tx_id, tx) ==
    [t \in (DOMAIN txs) \cup {tx_id} |-> IF t = tx_id THEN tx ELSE txs[t]]

\* Database::lookup with the tx looked up ahead of the client.
Database_lookup_tx_first(db, client_id, tx_id) ==
    IF tx_id \notin DOMAIN db.txs
    THEN [ok |-> FALSE, err |-> "no_such_tx"]
    ELSE IF client_id \notin DOMAIN db.clients
    THEN [ok |-> FALSE, err |-> "no_such_client"]
    ELSE [ok |-> TRUE, err |-> NoErr,
          client |-> db.clients[client_id], tx |-> db.txs[tx_id]]

\* Database::lookup: the client is looked up first, then the tx.
Database_lookup(db, client_id, tx_id) ==
    IF client_id \notin DOMAIN db.clients
    THEN [ok |-> FALSE, err |-> "no_such_client"]
    ELSE IF tx_id \notin DOMAIN db.txs
    THEN [ok |-> FALSE, err |-> "no_such_tx"]
    ELSE [ok |-> TRUE, err |-> NoErr,
          client |-> db.clients[client_id], tx |-> db.txs[tx_id]]

\* Database::deposit without the duplicate check: HashMap::insert replaces
\* the Tx stored under the id.
Database_deposit_overwrites(db, client_id, tx_id, amount) ==
    LET clients1 == Database_client(db, client_id)
        r == Client_deposit(clients1[client_id], amount)
    IN  IF ~r.ok
        THEN [ok |-> FALSE, err |-> r.err,
              db |-> [clients |-> clients1, txs |-> db.txs]]
        ELSE [ok |-> TRUE, err |-> NoErr,
              db |-> [clients |-> [clients1 EXCEPT ![client_id] = r.self],
                      txs |-> Txs_insert(db.txs, tx_id,
                                         Tx_new(tx_id, amount))]]

\* Database::deposit with the duplicate check made after the client is
\* looked up or created, not before.
Database_deposit_late_check(db, client_id, tx_id, amount) ==
    LET clients1 == Database_client(db, client_id)
        r == Client_deposit(clients1[client_id], amount)
    IN  IF tx_id \in DOMAIN db.txs
        THEN [ok |-> FALSE, err |-> "duplicate_tx",
              db |-> [clients |-> clients1, txs |-> db.txs]]
        ELSE IF ~r.ok
        THEN [ok |-> FALSE, err |-> r.err,
              db |-> [clients |-> clients1, txs |-> db.txs]]
        ELSE [ok |-> TRUE, err |-> NoErr,
              db |-> [clients |-> [clients1 EXCEPT ![client_id] = r.self],
                      txs |-> Txs_insert(db.txs, tx_id,
                                         Tx_new(tx_id, amount))]]

\* Database::deposit with the Tx inserted ahead of Client::deposit, so that
\* a deposit refused for its amount has recorded its Tx.
Database_deposit_inserts_first(db, client_id, tx_id, amount) ==
    IF tx_id \in DOMAIN db.txs
    THEN [ok |-> FALSE, err |-> "duplicate_tx", db |-> db]
    ELSE LET clients1 == Database_client(db, client_id)
             r == Client_deposit(clients1[client_id], amount)
             txs1 == Txs_insert(db.txs, tx_id, Tx_new(tx_id, amount))
         IN  IF ~r.ok
             THEN [ok |-> FALSE, err |-> r.err,
                   db |-> [clients |-> clients1, txs |-> txs1]]
             ELSE [ok |-> TRUE, err |-> NoErr,
                   db |-> [clients |-> [clients1 EXCEPT ![client_id] = r.self],
                           txs |-> txs1]]

\* Database::deposit
Database_deposit(db, client_id, tx_id, amount) ==
    IF tx_id \in DOMAIN db.txs
    THEN [ok |-> FALSE, err |-> "duplicate_tx", db |-> db]
    ELSE LET clients1 == Database_client(db, client_id)
             r == Client_deposit(clients1[client_id], amount)
         IN  IF ~r.ok
             THEN [ok |-> FALSE, err |-> r.err,
                   db |-> [clients |-> clients1, txs |-> db.txs]]
             ELSE [ok |-> TRUE, err |-> NoErr,
                   db |-> [clients |-> [clients1 EXCEPT ![client_id] = r.self],
                           txs |-> Txs_insert(db.txs, tx_id,
                                              Tx_new(tx_id, amount))]]

\* Database::withdraw
Database_withdraw(db, client_id, tx_id, amount) ==
    IF tx_id \in DOMAIN db.txs
    THEN [ok |-> FALSE, err |-> "duplicate_tx", db |-> db]
    ELSE LET clients1 == Database_client(db, client_id)
             r == Client_withdraw(clients1[client_id], amount)
         IN  IF ~r.ok
             THEN [ok |-> FALSE, err |-> r.err,
                   db |-> [clients |-> clients1, txs |-> db.txs]]
             ELSE [ok |-> TRUE, err |-> NoErr,
                   db |-> [clients |-> [clients1 EXCEPT ![client_id] = r.self],
                           txs |-> Txs_insert(db.txs, tx_id,
                                              Tx_new(tx_id, 0 - amount))]]

\* Database::dispute
Database_dispute(db, client_id, tx_id) ==
    LET l == Database_lookup(db, client_id, tx_id)
    IN  IF ~l.ok
        THEN [ok |-> FALSE, err |-> l.err, db |-> db]
        ELSE IF ~(l.tx.amount >= 0)
        THEN [ok |-> FALSE, err |-> "withdrawal", db |-> db]
        ELSE LET r == Client_hold(l.client, l.tx.amount)
             IN  [ok |-> r.ok, err |-> r.err,
                  db |-> [db EXCEPT !.clients[client_id] = r.self]]

\* Database::resolve
Database_resolve(db, client_id, tx_id) ==
    LET l == Database_lookup(db, client_id, tx_id)
    IN  IF ~l.ok
        THEN [ok |-> FALSE, err |-> l.err, db |-> db]
        ELSE IF ~(l.tx.amount >= 0)
        THEN [ok |-> FALSE, err |-> "withdrawal", db |-> db]
        ELSE LET r == Client_release(l.client, l.tx.amount)
             IN  [ok |-> r.ok, err |-> r.err,
                  db |-> [db EXCEPT !.clients[client_id] = r.self]]

\* Database::chargeback
Database_chargeback(db, client_id, tx_id) ==
    LET l == Database_lookup(db, client_id, tx_id)
    IN  IF ~l.ok
        THEN [ok |-> FALSE, err |-> l.err, db |-> db]
        ELSE IF ~(l.tx.amount >= 0)
        THEN [ok |-> FALSE, err |-> "withdrawal", db |-> db]
        ELSE LET r == Client_chargeback(l.client, l.tx.amount)
             IN  [ok |-> r.ok, err |-> r.err,
                  db |-> [db EXCEPT !.clients[client_id] = r.self]]

(***************************************************************************)
(* The batch driver of src/src/tx.rs.  Its Client has the fields of the    *)
(* Client of db.rs and the same Client::new; its maps are BTreeMaps.  The  *)
(* body of the loop of process is one operator per arm of the match: from  *)
(* the maps st = [clients, txs] it gives the maps the arm leaves and what  *)
(* became of the record: "applied", "ignored" (eprintln! and continue),    *)
(* "bail" (process returns Err) or "panic".                                *)
(***************************************************************************)

\* tx.rs Client::add_available
Client_add_available(self, amount) ==
    IF self.available + amount < 0
    THEN [ok |-> FALSE, self |-> self]
    ELSE [ok |-> TRUE, self |-> [self EXCEPT !.available = @ + amount]]

\* tx.rs Client::add_held
Client_add_held(self, amount) ==
    IF self.available - amount < 0
    THEN [ok |-> FALSE, self |-> self]
    ELSE IF self.held + amount < 0
    THEN [ok |-> FALSE, self |-> self]
    ELSE [ok |-> TRUE,
          self |-> [self EXCEPT !.available = @ - amount,
                                !.held = @ + amount]]

\* clients.entry(client_id).or_insert_with(|| Client::new(client_id)): the
\* client map after it.
entry_or_insert(cs, id) ==
    IF id \in DOMAIN cs
    THEN cs
    ELSE [c \in (DOMAIN cs) \cup {id} |->
            IF c = id THEN Client_new(id) ELSE cs[c]]

Handled(cs, ts, outcome, cause) ==
    [clients |-> cs, txs |-> ts, outcome |-> outcome, cause |-> cause]

\* process, arm Record::Deposit.  BTreeMap::insert replaces a Tx stored
\* under the id and returns it, and process bails.
process_Deposit(st, client_id, tx_id, amount) ==
    IF amount < 0
    THEN Handled(st.clients, st.txs, "ignored", "negative")
    ELSE LET clients1 == entry_or_insert(st.clients, client_id)
             r == Client_add_available(clients1[client_id], amount)
             clients2 == [clients1 EXCEPT ![client_id] = r.self]
             txs2 == Txs_insert(st.txs, tx_id, Tx_new(tx_id, amount))
         IN  IF ~r.ok
             THEN Handled(clients1, st.txs, "panic", "expect")
             ELSE IF tx_id \in DOMAIN st.txs
             THEN Handled(clients2, txs2, "bail", "duplicate_tx")
             ELSE Handled(clients2, txs2, "applied", NoErr)

\* process, arm Record::Withdrawal
process_Withdrawal(st, client_id, tx_id, amount) ==
    IF amount < 0
    THEN Handled(st.clients, st.txs, "ignored", "negative")
    ELSE LET clients1 == entry_or_insert(st.clients, client_id)
             r == Client_add_available(clients1[client_id], 0 - amount)
             clients2 == [clients1 EXCEPT ![client_id] = r.self]
             txs2 == Txs_insert(st.txs, tx_id, Tx_new(tx_id, 0 - amount))
         IN  IF ~r.ok
             THEN Handled(clients1, st.txs, "ignored",
                          "insufficient_available")
             ELSE IF tx_id \in DOMAIN st.txs
             THEN Handled(clients2, txs2, "bail", "duplicate_tx")
             ELSE Handled(clients2, txs2, "applied", NoErr)

\* process, arm Record::Dispute
process_Dispute(st, client_id, tx_id) ==
    IF client_id \notin DOMAIN st.clients
    THEN Handled(st.clients, st.txs, "ignored", "no_such_client")
    ELSE IF tx_id \notin DOMAIN st.txs
    THEN Handled(st.clients, st.txs, "ignored", "no_such_tx")
    ELSE LET r == Client_add_held(st.clients[client_id],
                                  st.txs[tx_id].amount)
         IN  IF ~r.ok
             THEN Handled(st.clients, st.txs, "ignored",
                          "insufficient_available")
             ELSE Handled([st.clients EXCEPT ![client_id] = r.self],
                          st.txs, "applied", NoErr)

\* process, arm Record::Resolve
process_Resolve(st, client_id, tx_id) ==
    IF client_id \notin DOMAIN st.clients
    THEN Handled(st.clients, st.txs, "ignored", "no_such_client")
    ELSE IF tx_id \notin DOMAIN st.txs
    THEN Handled(st.clients, st.txs, "ignored", "no_such_tx")
    ELSE LET r == Client_add_held(st.clients[client_id],
                                  0 - st.txs[tx_id].amount)
         IN  IF ~r.ok
             THEN Handled(st.clients, st.txs, "ignored",
                          "insufficient_held")
             ELSE Handled([st.clients EXCEPT ![client_id] = r.self],
                          st.txs, "applied", NoErr)

\* process, arm Record::Chargeback: todo!()
process_Chargeback(st, client_id, tx_id) ==
    Handled(st.clients, st.txs, "panic", "todo")

(***************************************************************************)
(* The output of src/src/csv/account.rs.                                   *)
(***************************************************************************)

\* The Account row that write serializes for one client.
Account(client) ==
    [client |-> client.id, available |-> client.available,
     held |-> client.held, total |-> client.available + client.held,
     locked |-> client.locked]

\* The orders in which the keys S of a HashMap can be visited: the order of
\* HashMap::values() is unspecified and differs from one map to the next
\* (the default hasher is seeded at random), so it is any of them.
Orders(S) ==
    {o \in [1..Cardinality(S) -> S] :
        \A i, j \in 1..Cardinality(S) : i # j => o[i] # o[j]}

\* write: one row per client, in the order db.clients.values() visits them.
write(db, order) ==
    [i \in 1..Len(order) |-> Account(db.clients[order[i]])]

(***************************************************************************)
(* State.  clients and txs are the two maps of the Database.  last is the  *)
(* call made most recently with its result, prev the Database that call    *)
(* started from.  When the last call is a resolve or a chargeback and the  *)
(* call made just ahead of it was a successful dispute of the same client  *)
(* and Tx, before is that dispute with the Database it started from.       *)
(* rows is what write has written.  withdrawn and funds keep the history   *)
(* of the accepted calls: the ids of the Txs recorded by withdraw, and for *)
(* every client its accepted deposits less its accepted withdrawals less   *)
(* the amounts of its successful chargebacks.  script is the list of calls *)
(* a scripted run has still to make.  proc is a run of process of tx.rs:   *)
(* its two maps, what it has returned if it has, and the tx ids that the   *)
(* Deposit and Withdrawal records handled so far have named (distinct says *)
(* that no two of them named the same).  record is the record handled last *)
(* with what became of it, procPrev the value of proc before it.           *)
(* owner, charged, disputed and refused keep more of the history of the    *)
(* calls, which the Database itself does not store: owner is the client of *)
(* the call that recorded each Tx, charged the amount that the successful  *)
(* chargebacks naming each Tx have taken, both after the last call;        *)
(* disputed and refused are, like prev, as of before the last call:        *)
(* disputed the ids of the Txs of which a dispute has succeeded with no    *)
(* successful resolve or chargeback of the Tx since, refused the pairs of  *)
(* client and tx id of which a deposit or withdraw has failed for a        *)
(* negative amount or for insufficient funds with no Tx recorded under the *)
(* id since.                                                               *)
(***************************************************************************)
VARIABLES clients, txs, last, prev, before, rows, withdrawn, funds, script,
          proc, record, procPrev, owner, charged, disputed, refused

vars == <<clients, txs, last, prev, before, rows, withdrawn, funds, script,
          proc, record, procPrev, owner, charged, disputed, refused>>

\* The history that only the runs with history keep.
histVars == <<owner, charged, disputed, refused>>

\* The variables of a run of process, which the calls on a Database alone
\* leave as they are.
procVars == <<proc, record, procPrev>>

\* The Database value held in the variables.
Db == [clients |-> clients, txs |-> txs]

NoCall == [op |-> "new", client |-> 0, tx |-> 0, amount |-> 0,
           ok |-> TRUE, err |-> NoErr]

NoDispute == [client |-> 0, tx |-> 0, db |-> Database_new]

\* process on entry: let mut clients = BTreeMap::new(); let mut txs =
\* BTreeMap::new(); nothing returned and no record handled.
NoProc == [clients |-> << >>, txs |-> << >>, result |-> "running",
           seen |-> {}, distinct |-> TRUE]

NoRecord == [type |-> "none", client |-> 0, tx |-> 0, amount |-> 0,
             outcome |-> "applied", cause |-> NoErr]

\* The history of a new Database: no withdrawal recorded, no funds moved.
NoFunds == [c \in ClientIds |-> 0]

\* No chargeback has taken anything.
NoCharge == [t \in TxIds |-> 0]

\* The history of a new Database, on which no call has been made.
NoHistory ==
    /\ owner = << >>
    /\ charged = NoCharge
    /\ disputed = {}
    /\ refused = {}

Init ==
    /\ clients = Database_new.clients
    /\ txs = Database_new.txs
    /\ last = NoCall
    /\ prev = Database_new
    /\ before = NoDispute
    /\ rows = << >>
    /\ withdrawn = {}
    /\ funds = NoFunds
    /\ script = << >>
    /\ proc = NoProc
    /\ record = NoRecord
    /\ procPrev = NoProc
    /\ NoHistory

\* What a call adds to the funds of the client it names: the amount of an
\* accepted deposit, less that of an accepted withdrawal, less the amount
\* of the Tx of a successful chargeback.
FundsDelta(op, tx_id, amount, r) ==
    IF ~r.ok THEN 0
    ELSE IF op = "deposit" THEN amount
    ELSE IF op = "withdraw" THEN 0 - amount
    ELSE IF op = "chargeback" THEN 0 - txs[tx_id].amount
    ELSE 0

\* One call on the Database: the maps become those the call leaves, and
\* the call and its result are recorded.  The output is written after the
\* last call.
Call(op, client_id, tx_id, amount, r) ==
    /\ last.op # "write"
    /\ \A c \in DOMAIN r.db.clients :
          /\ r.db.clients[c].held <= MaxHeld
          /\ r.db.clients[c].available >= 0 - MaxDebt
    /\ clients' = r.db.clients
    /\ txs' = r.db.txs
    /\ last' = [op |-> op, client |-> client_id, tx |-> tx_id,
                amount |-> amount, ok |-> r.ok, err |-> r.err]
    /\ prev' = Db
    /\ before' = IF /\ last.op = "dispute" /\ last.ok
                    /\ op \in {"resolve", "chargeback"}
                    /\ last.client = client_id /\ last.tx = tx_id
                 THEN [client |-> last.client, tx |-> last.tx, db |-> prev]
                 ELSE NoDispute
    /\ withdrawn' = IF op = "withdraw" /\ r.ok
                    THEN withdrawn \cup {tx_id}
                    ELSE withdrawn
    /\ funds' = [funds EXCEPT
                    ![client_id] = @ + FundsDelta(op, tx_id, amount, r)]
    /\ UNCHANGED rows

Deposit ==
    /\ \E c \in ClientIds, t \in TxIds, a \in Amounts :
          Call("deposit", c, t, a, Database_deposit(Db, c, t, a))
    /\ UNCHANGED <<script, procVars, histVars>>

Withdraw ==
    /\ \E c \in ClientIds, t \in TxIds, a \in Amounts :
          Call("withdraw", c, t, a, Database_withdraw(Db, c, t, a))
    /\ UNCHANGED <<script, procVars, histVars>>

Dispute ==
    /\ \E c \in ClientIds, t \in TxIds :
          Call("dispute", c, t, 0, Database_dispute(Db, c, t))
    /\ UNCHANGED <<script, procVars, histVars>>

Resolve ==
    /\ \E c \in ClientIds, t \in TxIds :
          Call("resolve", c, t, 0, Database_resolve(Db, c, t))
    /\ UNCHANGED <<script, procVars, histVars>>

Chargeback ==
    /\ \E c \in ClientIds, t \in TxIds :
          Call("chargeback", c, t, 0, Database_chargeback(Db, c, t))
    /\ UNCHANGED <<script, procVars, histVars>>

\* write(writer, &db), once, after the calls: the Database is only read.
Write ==
    /\ last.op # "write"
    /\ \E order \in Orders(DOMAIN clients) :
          rows' = write(Db, order)
    /\ last' = [op |-> "write", client |-> 0, tx |-> 0, amount |-> 0,
                ok |-> TRUE, err |-> NoErr]
    /\ prev' = Db
    /\ before' = NoDispute
    /\ UNCHANGED <<clients, txs, withdrawn, funds, script, procVars,
                   histVars>>

Next ==
    \/ Deposit
    \/ Withdraw
    \/ Dispute
    \/ Resolve
    \/ Chargeback
    \/ Write

Spec == Init /\ [][Next]_vars

(***************************************************************************)
(* Scripted runs: a new Database on which a fixed list of calls is made,   *)
(* one call per step, as the tests of db.rs do.                            *)
(***************************************************************************)

\* tests::dispute_resolve_chargeback for one deposit: the deposit is
\* disputed, resolved, disputed again and charged back.
Scenario(c, t, a) ==
    << [op |-> "deposit", client |-> c, tx |-> t, amount |-> a],
       [op |-> "dispute", client |-> c, tx |-> t, amount |-> 0],
       [op |-> "resolve", client |-> c, tx |-> t, amount |-> 0],
       [op |-> "dispute", client |-> c, tx |-> t, amount |-> 0],
       [op |-> "chargeback", client |-> c, tx |-> t, amount |-> 0] >>

\* What may come ahead of the scenario for client c and tx t: nothing, or a
\* deposit (valid or not) for another client under another tx id, disputed
\* or not.
Preludes(c, t) ==
    {<< >>}
    \cup {<< [op |-> "deposit", client |-> d, tx |-> u, amount |-> b] >> :
            d \in ClientIds \ {c}, u \in TxIds \ {t}, b \in Amounts}
    \cup {<< [op |-> "deposit", client |-> d, tx |-> u, amount |-> b],
             [op |-> "dispute", client |-> d, tx |-> u, amount |-> 0] >> :
            d \in ClientIds \ {c}, u \in TxIds \ {t}, b \in Amounts}

InitScript ==
    /\ clients = Database_new.clients
    /\ txs = Database_new.txs
    /\ last = NoCall
    /\ prev = Database_new
    /\ before = NoDispute
    /\ rows = << >>
    /\ withdrawn = {}
    /\ funds = NoFunds
    /\ proc = NoProc
    /\ record = NoRecord
    /\ procPrev = NoProc
    /\ NoHistory
    /\ \E c \in ClientIds, t \in TxIds, a \in 0..MaxAmount :
          \E prelude \in Preludes(c, t) :
              script = prelude \o Scenario(c, t, a)

\* The next call of the script is op: it is made and taken off the script.
Scripted(op) ==
    /\ script # << >>
    /\ Head(script).op = op
    /\ script' = Tail(script)
    /\ UNCHANGED <<procVars, histVars>>

ScriptDeposit ==
    /\ Scripted("deposit")
    /\ LET call == Head(script)
       IN  Call("deposit", call.client, call.tx, call.amount,
                Database_deposit(Db, call.client, call.tx, call.amount))

ScriptDispute ==
    /\ Scripted("dispute")
    /\ LET call == Head(script)
       IN  Call("dispute", call.client, call.tx, 0,
                Database_dispute(Db, call.client, call.tx))

ScriptResolve ==
    /\ Scripted("resolve")
    /\ LET call == Head(script)
       IN  Call("resolve", call.client, call.tx, 0,
                Database_resolve(Db, call.client, call.tx))

ScriptChargeback ==
    /\ Scripted("chargeback")
    /\ LET call == Head(script)
       IN  Call("chargeback", call.client, call.tx, 0,
                Database_chargeback(Db, call.client, call.tx))

NextScript ==
    \/ ScriptDeposit
    \/ ScriptDispute
    \/ ScriptResolve
    \/ ScriptChargeback

SpecScript == InitScript /\ [][NextScript]_vars

(***************************************************************************)
(* Runs of process.  Each step handles the next record of the input, which *)
(* is any record, and makes the call of that record on a Database as well, *)
(* so that clients and txs are the Database to which the same records have *)
(* been applied one at a time, a call that returns an error being skipped. *)
(***************************************************************************)

\* One turn of the loop of process on a record, h being what the arm of the
\* record gives.
Handle(type, client_id, tx_id, amount, h) ==
    /\ proc.result = "running"
    /\ proc' = [clients |-> h.clients,
                txs |-> h.txs,
                result |-> IF h.outcome = "bail" THEN "err"
                           ELSE IF h.outcome = "panic" THEN "panic"
                           ELSE "running",
                seen |-> IF type \in {"deposit", "withdrawal"}
                         THEN proc.seen \cup {tx_id}
                         ELSE proc.seen,
                distinct |-> /\ proc.distinct
                             /\ ~(/\ type \in {"deposit", "withdrawal"}
                                  /\ tx_id \in proc.seen)]
    /\ record' = [type |-> type, client |-> client_id, tx |-> tx_id,
                  amount |-> amount, outcome |-> h.outcome,
                  cause |-> h.cause]
    /\ procPrev' = proc
    /\ UNCHANGED <<script, histVars>>

ProcessDeposit ==
    \E c \in ClientIds, t \in TxIds, a \in Amounts :
        /\ Handle("deposit", c, t, a, process_Deposit(proc, c, t, a))
        /\ Call("deposit", c, t, a, Database_deposit(Db, c, t, a))

ProcessWithdrawal ==
    \E c \in ClientIds, t \in TxIds, a \in Amounts :
        /\ Handle("withdrawal", c, t, a, process_Withdrawal(proc, c, t, a))
        /\ Call("withdraw", c, t, a, Database_withdraw(Db, c, t, a))

ProcessDispute ==
    \E c \in ClientIds, t \in TxIds :
        /\ Handle("dispute", c, t, 0, process_Dispute(proc, c, t))
        /\ Call("dispute", c, t, 0, Database_dispute(Db, c, t))

ProcessResolve ==
    \E c \in ClientIds, t \in TxIds :
        /\ Handle("resolve", c, t, 0, process_Resolve(proc, c, t))
        /\ Call("resolve", c, t, 0, Database_resolve(Db, c, t))

ProcessChargeback ==
    \E c \in ClientIds, t \in TxIds :
        /\ Handle("chargeback", c, t, 0, process_Chargeback(proc, c, t))
        /\ Call("chargeback", c, t, 0, Database_chargeback(Db, c, t))

\* The records are exhausted: Ok(clients).
ProcessReturn ==
    /\ proc.result = "running"
    /\ proc' = [proc EXCEPT !.result = "ok"]
    /\ UNCHANGED <<clients, txs, last, prev, before, rows, withdrawn, funds,
                   script, record, procPrev, histVars>>

NextProcess ==
    \/ ProcessDeposit
    \/ ProcessWithdrawal
    \/ ProcessDispute
    \/ ProcessResolve
    \/ ProcessChargeback
    \/ ProcessReturn

SpecProcess == Init /\ [][NextProcess]_vars

(***************************************************************************)
(* Runs with history: the calls of Spec, any call from any Database, with  *)
(* the history of owner, charged and disputed kept along in one kind of    *)
(* run, and that of refused in another.                                    *)
(***************************************************************************)

\* The Txs under dispute once the call c has been made, d being those
\* under dispute before it.
DisputedAfter(d, c) ==
    IF c.op = "dispute" /\ c.ok
    THEN d \cup {c.tx}
    ELSE IF c.op \in {"resolve", "chargeback"} /\ c.ok
    THEN d \ {c.tx}
    ELSE d

\* The refused pairs once the call c has been made, f being those refused
\* before it: a deposit or withdraw that records its Tx takes the pairs of
\* its tx id out, one that fails on the amount puts its pair in.
RefusedAfter(f, c) ==
    IF c.op \in {"deposit", "withdraw"} /\ c.ok
    THEN {p \in f : p[2] # c.tx}
    ELSE IF /\ c.op \in {"deposit", "withdraw"}
            /\ c.err \in {"negative", "insufficient_available"}
    THEN f \cup {<<c.client, c.tx>>}
    ELSE f

\* What a call adds to the history: the call is recorded in owner and
\* charged, and the call made before it in disputed.
Recorded(op, client_id, tx_id, r) ==
    /\ owner' = IF op \in {"deposit", "withdraw"} /\ r.ok
                THEN [t \in (DOMAIN owner) \cup {tx_id} |->
                        IF t = tx_id THEN client_id ELSE owner[t]]
                ELSE owner
    /\ charged' = IF op = "chargeback" /\ r.ok
                  THEN [charged EXCEPT ![tx_id] = @ + txs[tx_id].amount]
                  ELSE charged
    /\ disputed' = DisputedAfter(disputed, last)

\* The history kept along with a call made on any Database.
History(op, client_id, tx_id, r) ==
    /\ Recorded(op, client_id, tx_id, r)
    /\ UNCHANGED <<script, procVars, refused>>

HistoryDeposit ==
    \E c \in ClientIds, t \in TxIds, a \in Amounts :
        LET r == Database_deposit(Db, c, t, a)
        IN  Call("deposit", c, t, a, r) /\ History("deposit", c, t, r)

HistoryWithdraw ==
    \E c \in ClientIds, t \in TxIds, a \in Amounts :
        LET r == Database_withdraw(Db, c, t, a)
        IN  Call("withdraw", c, t, a, r) /\ History("withdraw", c, t, r)

HistoryDispute ==
    \E c \in ClientIds, t \in TxIds :
        LET r == Database_dispute(Db, c, t)
        IN  Call("dispute", c, t, 0, r) /\ History("dispute", c, t, r)

HistoryResolve ==
    \E c \in ClientIds, t \in TxIds :
        LET r == Database_resolve(Db, c, t)
        IN  Call("resolve", c, t, 0, r) /\ History("resolve", c, t, r)

HistoryChargeback ==
    \E c \in ClientIds, t \in TxIds :
        LET r == Database_chargeback(Db, c, t)
        IN  Call("chargeback", c, t, 0, r) /\ History("chargeback", c, t, r)

NextHistory ==
    \/ HistoryDeposit
    \/ HistoryWithdraw
    \/ HistoryDispute
    \/ HistoryResolve
    \/ HistoryChargeback

SpecHistory == Init /\ [][NextHistory]_vars

\* The refusals kept along with a call: the call made before it is
\* recorded in refused.
Refusals ==
    /\ refused' = RefusedAfter(refused, last)
    /\ UNCHANGED <<script, procVars, owner, charged, disputed>>

RefusedDeposit ==
    /\ \E c \in ClientIds, t \in TxIds, a \in Amounts :
          Call("deposit", c, t, a, Database_deposit(Db, c, t, a))
    /\ Refusals

RefusedWithdraw ==
    /\ \E c \in ClientIds, t \in TxIds, a \in Amounts :
          Call("withdraw", c, t, a, Database_withdraw(Db, c, t, a))
    /\ Refusals

RefusedDispute ==
    /\ \E c \in ClientIds, t \in TxIds :
          Call("dispute", c, t, 0, Database_dispute(Db, c, t))
    /\ Refusals

RefusedResolve ==
    /\ \E c \in ClientIds, t \in TxIds :
          Call("resolve", c, t, 0, Database_resolve(Db, c, t))
    /\ Refusals

RefusedChargeback ==
    /\ \E c \in ClientIds, t \in TxIds :
          Call("chargeback", c, t, 0, Database_chargeback(Db, c, t))
    /\ Refusals

NextRefused ==
    \/ RefusedDeposit
    \/ RefusedWithdraw
    \/ RefusedDispute
    \/ RefusedResolve
    \/ RefusedChargeback

SpecRefused == Init /\ [][NextRefused]_vars

(***************************************************************************)
(* Scripted runs with history: a new Database on which a fixed list of     *)
(* calls is made, with owner, charged and disputed kept along.             *)
(***************************************************************************)

\* Client c deposits a under tx id t and b under tx id u and disputes Tx u;
\* then op, a resolve or a chargeback, is called on Tx t, which is not
\* under dispute: it has never been disputed, or (cycle) it was disputed
\* and resolved before Tx u was disputed.
Undisputed(c, t, u, a, b, op, cycle) ==
    << [op |-> "deposit", client |-> c, tx |-> t, amount |-> a],
       [op |-> "deposit", client |-> c, tx |-> u, amount |-> b] >>
    \o (IF cycle
        THEN << [op |-> "dispute", client |-> c, tx |-> t, amount |-> 0],
                [op |-> "resolve", client |-> c, tx |-> t, amount |-> 0] >>
        ELSE << >>)
    \o << [op |-> "dispute", client |-> c, tx |-> u, amount |-> 0],
          [op |-> op, client |-> c, tx |-> t, amount |-> 0] >>

\* What may come ahead of it: nothing, or a call that creates another
\* client and records no Tx.
Newcomers(c) ==
    {<< >>}
    \cup {<< [op |-> "deposit", client |-> d, tx |-> t, amount |-> 0 - 1] >> :
            d \in ClientIds \ {c}, t \in TxIds}

InitTracked ==
    /\ clients = Database_new.clients
    /\ txs = Database_new.txs
    /\ last = NoCall
    /\ prev = Database_new
    /\ before = NoDispute
    /\ rows = << >>
    /\ withdrawn = {}
    /\ funds = NoFunds
    /\ proc = NoProc
    /\ record = NoRecord
    /\ procPrev = NoProc
    /\ NoHistory
    /\ \E c \in ClientIds, t \in TxIds, a \in 0..MaxAmount, b \in 0..MaxAmount :
          \E u \in TxIds \ {t}, op \in {"resolve", "chargeback"} :
              \E cycle \in BOOLEAN, newcomer \in Newcomers(c) :
                  script = newcomer \o Undisputed(c, t, u, a, b, op, cycle)

\* The next call of the script is op: it is made, taken off the script and
\* recorded in the history.
Tracked(op, r) ==
    /\ script # << >>
    /\ Head(script).op = op
    /\ script' = Tail(script)
    /\ Call(op, Head(script).client, Head(script).tx, Head(script).amount, r)
    /\ Recorded(op, Head(script).client, Head(script).tx, r)
    /\ UNCHANGED <<procVars, refused>>

TrackedDeposit ==
    Tracked("deposit",
            Database_deposit(Db, Head(script).client, Head(script).tx,
                             Head(script).amount))

TrackedDispute ==
    Tracked("dispute",
            Database_dispute(Db, Head(script).client, Head(script).tx))

TrackedResolve ==
    Tracked("resolve",
            Database_resolve(Db, Head(script).client, Head(script).tx))

TrackedChargeback ==
    Tracked("chargeback",
            Database_chargeback(Db, Head(script).client, Head(script).tx))

NextTracked ==
    \/ TrackedDeposit
    \/ TrackedDispute
    \/ TrackedResolve
    \/ TrackedChargeback

SpecTracked == InitTracked /\ [][NextTracked]_vars

(***************************************************************************)
(* Properties.  They are stated on the call made most recently: last is    *)
(* the call and its result, prev the Database before it, and clients and   *)
(* txs the Database after it.  Every reachable state but the first is the  *)
(* state after some call, so an invariant of this form speaks of every     *)
(* call made from every reachable Database.                                *)
(***************************************************************************)

\* The client a call finds under id c: the one stored before the call, or
\* the one Database::client would create.
PrevClient(c) ==
    IF c \in DOMAIN prev.clients THEN prev.clients[c] ELSE Client_new(c)

\* The last call left the Database as it was.
Unchanged == clients = prev.clients /\ txs = prev.txs

\* The last call left every client but c as it was, and created none but c.
OthersUnchanged(c) ==
    /\ DOMAIN clients \subseteq (DOMAIN prev.clients) \cup {c}
    /\ \A d \in (DOMAIN prev.clients) \ {c} :
          d \in DOMAIN clients /\ clients[d] = prev.clients[d]

\* The last call was made on an existing client and an existing Tx with a
\* stored amount >= 0 (the Tx of a deposit).
OnClientAndDeposit ==
    /\ last.client \in DOMAIN prev.clients
    /\ last.tx \in DOMAIN prev.txs
    /\ prev.txs[last.tx].amount >= 0

\* The call before the last one was a successful dispute, and the last
\* call names the same client and the same Tx.
FollowsDispute ==
    /\ before.client = last.client
    /\ before.tx = last.tx
    /\ last.client \in ClientIds

\* C1: in every reachable state every client's available is >= 0.
C1_AvailableNonNegative ==
    \A c \in DOMAIN clients : clients[c].available >= 0

\* C2: in every reachable state every client's held is >= 0.
C2_HeldNonNegative ==
    \A c \in DOMAIN clients : clients[c].held >= 0

\* C2 witness: a resolve or chargeback has taken a client's held from a
\* positive value down to 0.
C2_Witness ==
    /\ last.op \in {"resolve", "chargeback"}
    /\ last.ok
    /\ prev.clients[last.client].held > 0
    /\ clients[last.client].held = 0

\* C3: a call that returns an error leaves the whole Database (the set of
\* clients, every client's fields, the tx store) as it was.
C3_FailedCallChangesNothing ==
    ~last.ok => Unchanged

\* C4: a deposit or withdraw whose tx id is already stored is rejected and
\* leaves the clients and the tx store (so the stored Tx) as they were.
C4_DuplicateTxRejected ==
    (last.op \in {"deposit", "withdraw"} /\ last.tx \in DOMAIN prev.txs)
        => ~last.ok /\ last.err = "duplicate_tx" /\ Unchanged

\* C4 witness: a valid deposit reusing a stored tx id was made for a client
\* that does not exist, so for another client than the one of the stored Tx.
C4_Witness ==
    /\ last.op = "deposit"
    /\ last.amount > 0
    /\ last.tx \in DOMAIN prev.txs
    /\ last.client \notin DOMAIN prev.clients
    /\ ~last.ok

\* C5: an accepted deposit(c, t, a) adds exactly a to c's available (from 0
\* for a client it creates), leaves c's held and locked as they were (0 and
\* false for a client it creates), records Tx t with amount a, and leaves
\* every other client and every other Tx as it was.
C5_DepositEffect ==
    (last.op = "deposit" /\ last.ok) =>
        /\ last.amount >= 0
        /\ last.client \in DOMAIN clients
        /\ clients[last.client] =
              [PrevClient(last.client) EXCEPT !.available = @ + last.amount]
        /\ OthersUnchanged(last.client)
        /\ last.tx \notin DOMAIN prev.txs
        /\ DOMAIN txs = (DOMAIN prev.txs) \cup {last.tx}
        /\ txs[last.tx] = [id |-> last.tx, amount |-> last.amount]
        /\ \A t \in DOMAIN prev.txs : txs[t] = prev.txs[t]

\* C5 witness: a positive deposit was accepted for an existing client that
\* has held funds, while another client exists.
C5_Witness ==
    /\ last.op = "deposit"
    /\ last.ok
    /\ last.amount > 0
    /\ last.client \in DOMAIN prev.clients
    /\ prev.clients[last.client].held > 0
    /\ DOMAIN prev.clients # {last.client}

\* C6: withdraw(c, t, a) with a fresh tx id succeeds exactly when
\* 0 <= a <= c.available (0 for a client that does not exist yet); on
\* success available goes down by exactly a and Tx t is stored with amount
\* -a; when a > available it fails, c's available, held and locked are what
\* they were and no Tx is recorded.
C6_WithdrawEffect ==
    (last.op = "withdraw" /\ last.tx \notin DOMAIN prev.txs) =>
        LET c == last.client
            a == last.amount
            av == PrevClient(c).available
        IN  /\ last.ok <=> (0 <= a /\ a <= av)
            /\ last.ok =>
                  /\ clients[c] = [PrevClient(c) EXCEPT !.available = av - a]
                  /\ DOMAIN txs = (DOMAIN prev.txs) \cup {last.tx}
                  /\ txs[last.tx] = [id |-> last.tx, amount |-> 0 - a]
            /\ a > av =>
                  /\ ~last.ok
                  /\ clients[c] = PrevClient(c)
                  /\ txs = prev.txs

\* C6 witness: a withdrawal of exactly the available amount, which is
\* positive, was accepted.
C6_Witness ==
    /\ last.op = "withdraw"
    /\ last.ok
    /\ last.amount > 0
    /\ last.amount = prev.clients[last.client].available

\* C6 witness of the failing side: a withdrawal of more than is available
\* was made on an existing client with a fresh tx id.
C6_WitnessRejected ==
    /\ last.op = "withdraw"
    /\ last.tx \notin DOMAIN prev.txs
    /\ last.client \in DOMAIN prev.clients
    /\ last.amount > prev.clients[last.client].available
    /\ ~last.ok

\* C7: dispute(c, t) on an existing client and an existing deposit Tx fails
\* whenever tx.amount > c.available and leaves available and held as they
\* were.
C7_DisputeNeedsAvailable ==
    (/\ last.op = "dispute"
     /\ OnClientAndDeposit
     /\ prev.txs[last.tx].amount > prev.clients[last.client].available)
        => /\ ~last.ok
           /\ clients[last.client].available
                 = prev.clients[last.client].available
           /\ clients[last.client].held = prev.clients[last.client].held

\* C8: a resolve(c, t) that immediately follows a successful dispute(c, t)
\* succeeds and leaves the Database exactly as it was before the dispute:
\* c's available, held and locked, every other client, and the tx store.
C8_DisputeThenResolve ==
    (last.op = "resolve" /\ FollowsDispute) =>
        /\ last.ok
        /\ clients = before.db.clients
        /\ txs = before.db.txs

\* C8 witness: such a resolve was made for a Tx of positive amount.
C8_Witness ==
    /\ last.op = "resolve"
    /\ FollowsDispute
    /\ last.ok
    /\ txs[last.tx].amount > 0

\* C9: a chargeback(c, t) that immediately follows a successful
\* dispute(c, t) succeeds, takes exactly tx.amount from c's held, leaves
\* c's available as it was and sets c.locked.
C9_DisputeThenChargeback ==
    (last.op = "chargeback" /\ FollowsDispute) =>
        LET c == last.client
        IN  /\ last.ok
            /\ clients[c].held = prev.clients[c].held - prev.txs[last.tx].amount
            /\ clients[c].available = prev.clients[c].available
            /\ clients[c].locked

\* C9 witness: such a chargeback was made for a Tx of positive amount on a
\* client that was not locked.
C9_Witness ==
    /\ last.op = "chargeback"
    /\ FollowsDispute
    /\ last.ok
    /\ txs[last.tx].amount > 0
    /\ ~prev.clients[last.client].locked

\* C10: a client that is locked before a call is locked after it, whatever
\* the call and whichever client it names; and a client is locked after a
\* call without having been locked before it only when the call is a
\* successful chargeback on that client.
C10_LockPermanent ==
    /\ \A c \in DOMAIN prev.clients :
          prev.clients[c].locked => c \in DOMAIN clients /\ clients[c].locked
    /\ \A c \in DOMAIN clients :
          (clients[c].locked /\ ~PrevClient(c).locked)
              => last.op = "chargeback" /\ last.ok /\ last.client = c

\* C10 witness: a resolve succeeded on a locked client and moved held funds.
C10_Witness ==
    /\ last.op = "resolve"
    /\ last.ok
    /\ prev.clients[last.client].locked
    /\ prev.clients[last.client].held # clients[last.client].held

\* The last call was a dispute, a resolve or a chargeback.
OnTx == last.op \in {"dispute", "resolve", "chargeback"}

\* C11: a dispute, resolve or chargeback that names a Tx recorded by an
\* accepted withdrawal (of any amount >= 0, 0 included) fails and leaves
\* the Database as it was.
C11_WithdrawalNotDisputable ==
    (OnTx /\ last.tx \in withdrawn) => ~last.ok /\ Unchanged

\* C12: a dispute, resolve or chargeback that names a client without an
\* account fails with "no such client", also when the tx id is unknown
\* too, and creates no client: the Database is as it was.
C12_NoSuchClient ==
    (OnTx /\ last.client \notin DOMAIN prev.clients) =>
        /\ ~last.ok
        /\ last.err = "no_such_client"
        /\ DOMAIN clients = DOMAIN prev.clients
        /\ Unchanged

\* C12 witness: a dispute named a client and a tx id that are both unknown,
\* while another client exists.
C12_Witness ==
    /\ last.op = "dispute"
    /\ last.client \notin DOMAIN prev.clients
    /\ last.tx \notin DOMAIN prev.txs
    /\ DOMAIN prev.clients # {}
    /\ ~last.ok

\* C13 as claimed: a withdraw for a client without an account fails for
\* every amount >= 0 and records no Tx.
C13_WithdrawNewClientFails ==
    (/\ last.op = "withdraw"
     /\ last.client \notin DOMAIN prev.clients
     /\ last.amount >= 0)
        => ~last.ok /\ txs = prev.txs

\* C13 as amended: a withdraw for a client without an account fails for
\* every amount > 0, for insufficient funds when the tx id is fresh, and
\* records no Tx.
C13_WithdrawNewClientPositiveFails ==
    (/\ last.op = "withdraw"
     /\ last.client \notin DOMAIN prev.clients
     /\ last.amount > 0)
        => /\ ~last.ok
           /\ txs = prev.txs
           /\ last.tx \notin DOMAIN prev.txs
                 => last.err = "insufficient_available"

\* C13 witness: a positive withdraw with a fresh tx id was made for a client
\* without an account, in a Database that has clients and Txs.
C13_Witness ==
    /\ last.op = "withdraw"
    /\ last.client \notin DOMAIN prev.clients
    /\ last.amount > 0
    /\ last.tx \notin DOMAIN prev.txs
    /\ DOMAIN prev.txs # {}
    /\ ~last.ok

\* C14: resolve and chargeback on an existing client and a deposit Tx fail
\* for insufficient held funds whenever tx.amount > c.held, and leave the
\* client's available, held and locked (so the whole Database) as they
\* were: a failed chargeback does not lock the account.
C14_ReleaseNeedsHeld ==
    (/\ last.op \in {"resolve", "chargeback"}
     /\ OnClientAndDeposit
     /\ prev.txs[last.tx].amount > prev.clients[last.client].held)
        => /\ ~last.ok
           /\ last.err = "insufficient_held"
           /\ clients[last.client] = prev.clients[last.client]
           /\ Unchanged

\* C14 witness: a chargeback of more than is held was made on a client that
\* is not locked and has the amount available.
C14_Witness ==
    /\ last.op = "chargeback"
    /\ OnClientAndDeposit
    /\ prev.txs[last.tx].amount > prev.clients[last.client].held
    /\ prev.txs[last.tx].amount <= prev.clients[last.client].available
    /\ ~prev.clients[last.client].locked
    /\ ~last.ok

\* C15: the stores only grow.  A Tx stored before a call is stored after it
\* with the same amount, a client that exists before a call exists after
\* it, and dispute, resolve and chargeback leave the tx store as it was.
C15_AppendOnly ==
    /\ \A t \in DOMAIN prev.txs : t \in DOMAIN txs /\ txs[t] = prev.txs[t]
    /\ \A c \in DOMAIN prev.clients : c \in DOMAIN clients
    /\ OnTx => txs = prev.txs

\* C15 witness: a deposit was accepted into a tx store that held a Tx of
\* another amount, after a dispute had been charged back.
C15_Witness ==
    /\ last.op = "deposit"
    /\ last.ok
    /\ \E t \in DOMAIN prev.txs : prev.txs[t].amount # last.amount
    /\ \E c \in DOMAIN prev.clients : prev.clients[c].locked

\* C16: for every client, available + held is the sum of its accepted
\* deposits less its accepted withdrawals less the amounts taken by its
\* successful chargebacks; dispute and resolve leave available + held of
\* every client as it was.
C16_Conservation ==
    /\ \A c \in DOMAIN clients :
          clients[c].available + clients[c].held = funds[c]
    /\ \A c \in ClientIds \ DOMAIN clients : funds[c] = 0
    /\ last.op \in {"dispute", "resolve"} =>
          \A c \in DOMAIN prev.clients :
              clients[c].available + clients[c].held
                  = prev.clients[c].available + prev.clients[c].held

\* C16 witness: a dispute of a positive amount succeeded on a client that
\* has been charged back and whose funds are not zero, after a withdrawal
\* was accepted.
C16_Witness ==
    /\ last.op = "dispute"
    /\ last.ok
    /\ txs[last.tx].amount > 0
    /\ clients[last.client].locked
    /\ funds[last.client] # 0
    /\ withdrawn # {}

\* C18: what write emits does not depend on the order in which the client
\* map is visited: the rows written are the rows of every order.
C18_OutputDeterministic ==
    last.op = "write" =>
        \A order \in Orders(DOMAIN clients) : rows = write(Db, order)

\* C17 (under SpecScript): for a client without an account and any amount
\* a >= 0, every call of deposit(c,t,a), dispute(c,t), resolve(c,t),
\* dispute(c,t), chargeback(c,t) succeeds, and the run ends with the client
\* at available = 0, held = 0, locked = true.
C17_DisputeResolveDisputeChargeback ==
    /\ Len(script) < Len(Scenario(1, 1, 0)) => last.ok
    /\ (script = << >> /\ last.op = "chargeback") =>
          clients[last.client] =
              [id |-> last.client, available |-> 0, held |-> 0,
               locked |-> TRUE]

\* C17 witness: the scenario has been run to its end for the largest amount,
\* with another client in the Database.
C17_Witness ==
    /\ script = << >>
    /\ last.op = "chargeback"
    /\ last.ok
    /\ txs[last.tx].amount = MaxAmount
    /\ DOMAIN clients = ClientIds

\* The available and held of client c in the client map cs, 0 and 0 when c
\* has no account.
Balances(cs, c) ==
    IF c \in DOMAIN cs THEN <<cs[c].available, cs[c].held>> ELSE <<0, 0>>

\* C19 (under SpecProcess): a record that process rejects for a negative
\* amount, insufficient funds, an unknown client, an unknown tx or a
\* duplicate tx id is not fatal: process goes on to the next record, and
\* the balances and the tx store are what they were before the record.
C19_RejectionsNonFatal ==
    record.cause \in {"negative", "insufficient_available",
                      "insufficient_held", "no_such_client", "no_such_tx",
                      "duplicate_tx"}
        => /\ record.outcome = "ignored"
           /\ proc.result \in {"running", "ok"}
           /\ proc.txs = procPrev.txs
           /\ \A c \in ClientIds :
                 Balances(proc.clients, c) = Balances(procPrev.clients, c)

\* C20 (under SpecProcess): when process returns Ok for Deposit, Withdrawal,
\* Dispute and Resolve records whose tx ids are pairwise distinct, its
\* clients are those of the Database to which the records were applied one
\* at a time, with the same available, held and locked.
C20_BatchMatchesIncremental ==
    (proc.result = "ok" /\ proc.distinct) =>
        /\ DOMAIN proc.clients = DOMAIN clients
        /\ \A c \in DOMAIN proc.clients :
              /\ proc.clients[c].available = clients[c].available
              /\ proc.clients[c].held = clients[c].held
              /\ proc.clients[c].locked = clients[c].locked

\* The last call changed the available or the held of client c.
BalancesChanged(c) ==
    Balances(clients, c) # Balances(prev.clients, c)

\* C21 (under SpecHistory): a dispute, resolve or chargeback(c, t) changes
\* the balances of c only when Tx t was recorded by a deposit of c; one
\* that names a Tx recorded for another client fails and leaves the
\* Database as it was.
C21_TxOfSameClient ==
    /\ (OnTx /\ BalancesChanged(last.client)) =>
          /\ last.tx \in DOMAIN owner
          /\ owner[last.tx] = last.client
          /\ last.tx \notin withdrawn
    /\ (/\ OnTx
        /\ last.tx \in DOMAIN owner
        /\ owner[last.tx] # last.client) => ~last.ok /\ Unchanged

\* The sum of the amounts of the Txs of the set T.
RECURSIVE SumOfAmounts(_)
SumOfAmounts(T) ==
    IF T = {} THEN 0
    ELSE LET t == CHOOSE u \in T : TRUE
         IN  txs[t].amount + SumOfAmounts(T \ {t})

\* The Txs recorded by the accepted deposits of client c.
DepositsOf(c) ==
    {t \in DOMAIN txs : owner[t] = c /\ t \notin withdrawn}

\* C22 (under SpecHistory): a dispute made while its Tx is under dispute,
\* with no successful resolve or chargeback of the Tx since the dispute
\* that succeeded, fails; so a client's held never exceeds the sum of the
\* amounts of its accepted deposits, and the chargebacks of a deposit
\* never take more than its amount in all.
C22_HeldAtMostOnce ==
    /\ (last.op = "dispute" /\ last.tx \in disputed) => ~last.ok
    /\ \A c \in DOMAIN clients :
          clients[c].held <= SumOfAmounts(DepositsOf(c))
    /\ \A t \in (DOMAIN txs) \ withdrawn : charged[t] <= txs[t].amount

\* C23: a deposit, withdraw, dispute, resolve or chargeback on a client that
\* is locked fails, and the available and held of a locked client are
\* after every call what they were before it.
C23_LockedRejectsAll ==
    /\ (/\ last.op \in {"deposit", "withdraw", "dispute", "resolve",
                        "chargeback"}
        /\ last.client \in DOMAIN prev.clients
        /\ prev.clients[last.client].locked) => ~last.ok
    /\ \A c \in DOMAIN prev.clients :
          prev.clients[c].locked =>
              Balances(clients, c) = Balances(prev.clients, c)

\* C24 (under SpecTracked): whether a resolve or a chargeback of a deposit
\* succeeds depends only on the held of the client: it succeeds exactly
\* when tx.amount <= c.held, whether the Tx is under dispute or not.
C24_SuccessDependsOnHeldOnly ==
    (last.op \in {"resolve", "chargeback"} /\ OnClientAndDeposit) =>
        (last.ok <=>
            prev.txs[last.tx].amount <= prev.clients[last.client].held)

\* C24 witness: a resolve(c, t) of a positive amount succeeded although
\* Tx t was not under dispute, c holding the amount for the dispute of
\* another of its Txs.
C24_Witness ==
    /\ last.op = "resolve"
    /\ last.ok
    /\ txs[last.tx].amount > 0
    /\ last.tx \notin disputed
    /\ \E u \in disputed \ {last.tx} : owner[u] = last.client

\* The tx ids refused before the last call under which no Tx had been
\* recorded when it was made.
RefusedTxs == {p[2] : p \in refused}

\* A deposit or withdraw refused for its amount records no Tx; a tx id so
\* refused is absent from the tx store until a deposit or withdraw records
\* it, and a deposit of an amount >= 0 or a withdraw of an amount between 0
\* and the client's available that reuses it is accepted and recorded.
RefusedTxIdFree ==
    /\ (/\ last.op \in {"deposit", "withdraw"}
        /\ last.err \in {"negative", "insufficient_available"})
          => /\ ~last.ok
             /\ last.tx \notin DOMAIN txs
             /\ txs = prev.txs
    /\ \A t \in RefusedTxs : t \notin DOMAIN prev.txs
    /\ (/\ last.op = "deposit"
        /\ last.tx \in RefusedTxs
        /\ last.amount >= 0)
          => /\ last.ok
             /\ txs[last.tx] = [id |-> last.tx, amount |-> last.amount]
    /\ (/\ last.op = "withdraw"
        /\ last.tx \in RefusedTxs
        /\ 0 <= last.amount
        /\ last.amount <= PrevClient(last.client).available)
          => /\ last.ok
             /\ txs[last.tx] = [id |-> last.tx, amount |-> 0 - last.amount]

\* C25 as claimed (under SpecRefused): a deposit or withdraw refused for
\* its amount does not use up its tx id, and a dispute that names the tx id
\* before it is reused fails with "no such tx".
C25_RefusedTxIdNotConsumed ==
    /\ RefusedTxIdFree
    /\ (last.op = "dispute" /\ last.tx \in RefusedTxs)
          => ~last.ok /\ last.err = "no_such_tx"

\* C25 as amended (under SpecRefused): the dispute fails with "no such tx"
\* when the client it names has an account, which the client of the
\* refused call has, and with "no such client" when it has none.
C25_RefusedTxIdNotConsumedForClients ==
    /\ RefusedTxIdFree
    /\ \A p \in refused : p[1] \in DOMAIN prev.clients
    /\ (last.op = "dispute" /\ last.tx \in RefusedTxs)
          => /\ ~last.ok
             /\ last.err = IF last.client \in DOMAIN prev.clients
                            THEN "no_such_tx"
                            ELSE "no_such_client"
    /\ (last.op = "dispute" /\ <<last.client, last.tx>> \in refused)
          => last.err = "no_such_tx"

\* C25 witness: a deposit of a positive amount was accepted under a tx id
\* of which a deposit or withdraw had been refused, for a client that had
\* funds.
C25_Witness ==
    /\ last.op = "deposit"
    /\ last.ok
    /\ last.amount > 0
    /\ last.tx \in RefusedTxs
    /\ PrevClient(last.client).available > 0

====
